---- MODULE Spec2Model ----
(***************************************************************************)
(* Model of the application-session scripts of yellow-sdk-tutorials:      *)
(*   scripts/rideshare_demo.ts                 (three-party ride demo)     *)
(*   scripts/app_sessions/app_session_two_signers.ts                       *)
(*   lib/auth.ts                               (authentication helper)     *)
(*   connect_auth_get_balances.ts                                          *)
(* The scripts run on a single-threaded event loop: every action below is  *)
(* one run-to-completion step (a listener callback, a timer callback or   *)
(* the continuation of an await).                                          *)
(***************************************************************************)
EXTENDS Integers, Sequences, FiniteSets, TLC

(* ------------------------------ bounds -------------------------------- *)

\* largest version number a ChannelsUpdate message of the backend carries
MaxAckVersion == 1

\* longest signer list handed to the quorum evaluator
MaxSigners == 3

\* most Error messages the backend sends in one run
MaxErrors == 1

\* AuthVerify messages the server sends to a one-listener script in a run
MaxVerifies == 2

(* ---------------------- constants of the scripts ---------------------- *)

RIDER_WEIGHT == 40
DRIVER_WEIGHT == 40
APP_WEIGHT == 20
QUORUM_THRESHOLD == 60
CHALLENGE_PERIOD == 86400

\* '10000000', a decimal string: one character per element
RIDE_FARE == <<"1", "0", "0", "0", "0", "0", "0", "0">>

APP_PROTOCOL == "rideshare-app-v1"

Roles == {"rider", "driver", "app"}
RoleOrder == <<"rider", "driver", "app">>

\* enum RideStatus
IDLE == "idle"
CREATING_SESSION == "creating_session"
SESSION_CREATED == "session_created"
RIDE_BOOKED == "ride_booked"
PICKUP_CONFIRMED == "pickup_confirmed"
RIDE_IN_PROGRESS == "ride_in_progress"
RIDE_COMPLETED == "ride_completed"
ALLOCATIONS_UPDATED == "allocations_updated"

\* process.env: the seed-phrase variables a run may have set
EnvVars == {"RIDER_SEED_PHRASE", "DRIVER_SEED_PHRASE", "APP_SEED_PHRASE", "SEED_PHRASE",
            "WALLET_2_SEED_PHRASE"}

SeedPhraseEnvVar(role) ==
    CASE role = "rider" -> "RIDER_SEED_PHRASE"
      [] role = "driver" -> "DRIVER_SEED_PHRASE"
      [] role = "app" -> "APP_SEED_PHRASE"

\* the environments a run is started in: every role has its own seed phrase,
\* only the shared SEED_PHRASE is set, and no seed phrase at all
Environments ==
    {[v \in EnvVars |-> v \in set] :
        set \in {{"RIDER_SEED_PHRASE", "DRIVER_SEED_PHRASE", "APP_SEED_PHRASE"},
                 {"SEED_PHRASE"},
                 {}}}

(* ------------------------- amounts (strings) -------------------------- *)

DigitValue(c) ==
    CASE c = "0" -> 0 [] c = "1" -> 1 [] c = "2" -> 2 [] c = "3" -> 3
      [] c = "4" -> 4 [] c = "5" -> 5 [] c = "6" -> 6 [] c = "7" -> 7
      [] c = "8" -> 8 [] c = "9" -> 9

RECURSIVE DigitsValue(_)
DigitsValue(s) ==
    IF Len(s) = 0 THEN 0
    ELSE 10 * DigitsValue(SubSeq(s, 1, Len(s) - 1)) + DigitValue(s[Len(s)])

RECURSIVE Pow10(_)
Pow10(n) == IF n = 0 THEN 1 ELSE 10 * Pow10(n - 1)

DotIndex(s) ==
    IF \E i \in 1..Len(s) : s[i] = "."
    THEN CHOOSE i \in 1..Len(s) : s[i] = "."
    ELSE Len(s) + 1

\* the number a decimal amount string denotes, times 10^decimals
AmountValue(s, decimals) ==
    LET neg == Len(s) > 0 /\ s[1] = "-"
        body == IF neg THEN Tail(s) ELSE s
        dot == DotIndex(body)
        whole == SubSeq(body, 1, dot - 1)
        frac == SubSeq(body, dot + 1, Len(body))
        fracDigits == [i \in 1..decimals |-> IF i <= Len(frac) THEN frac[i] ELSE "0"]
        magnitude == DigitsValue(whole) * Pow10(decimals) + DigitsValue(fracDigits)
    IN  IF neg THEN 0 - magnitude ELSE magnitude

RECURSIVE SumAmounts(_, _)
SumAmounts(allocations, decimals) ==
    IF Len(allocations) = 0 THEN 0
    ELSE AmountValue(allocations[1].amount, decimals)
         + SumAmounts(Tail(allocations), decimals)

\* per-asset total of an allocation vector
AssetSum(allocations, asset, decimals) ==
    SumAmounts(SelectSeq(allocations, LAMBDA a : a.asset = asset), decimals)

(* ------------------------------ state --------------------------------- *)

VARIABLES
    program,             \* which script this run executes
    env,                 \* process.env: env[v] = TRUE when variable v is set
    mainPc,              \* position of main()
    exitCode,            \* process exit code, -1 while running
    participants,        \* role -> participant; empty until main stores them
    listening,           \* roles whose client has a listener registered
    currentRideStatus,
    statusLog,           \* every value currentRideStatus has had, in order
    appSessionId,
    currentAllocations,
    currentVersion,
    createPc,            \* position of createApplicationSession
    timers,              \* pending setTimeout callbacks
    submit,              \* the suspended submitAppState call, NoCall when none
    outbox,              \* messages handed to client.sendMessage, in order
    twoSigners,          \* the locals of app_session_two_signers' main
    handshake,           \* per authentication of app_session_two_signers and
                         \* connect_auth_get_balances: how far its handshake is
    evaluation,          \* the quorum evaluator's input and result
    script               \* the locals of the scripts with one listener:
                         \* create-channel, connect_wallet_and_tip, resize_channel

vars == <<program, env, mainPc, exitCode, participants, listening,
          currentRideStatus, statusLog, appSessionId, currentAllocations,
          currentVersion, createPc, timers, submit, outbox, twoSigners, handshake,
          evaluation, script>>

(* --------------------------- helper values ---------------------------- *)

\* mnemonicToAccount(seedPhrase).address: one address per seed phrase
AddressOf(seedVar) ==
    CASE seedVar = "RIDER_SEED_PHRASE" -> "0xRider"
      [] seedVar = "DRIVER_SEED_PHRASE" -> "0xDriver"
      [] seedVar = "APP_SEED_PHRASE" -> "0xApp"
      [] seedVar = "SEED_PHRASE" -> "0xShared"
      [] seedVar = "WALLET_2_SEED_PHRASE" -> "0xWallet2"

\* the shared seed phrase taking precedence over the role's own
SeedSource_SharedFirst(e, role) ==
    IF e["SEED_PHRASE"] THEN "SEED_PHRASE"
    ELSE IF e[SeedPhraseEnvVar(role)] THEN SeedPhraseEnvVar(role)
    ELSE ""

\* initializeParticipant: the variable whose seed phrase the role uses,
\* "" when the function throws
SeedSource(e, role) ==
    IF e[SeedPhraseEnvVar(role)] THEN SeedPhraseEnvVar(role)
    ELSE IF e["SEED_PHRASE"] THEN "SEED_PHRASE"
    ELSE ""

initializeParticipant(e, role) ==
    [role |-> role, address |-> AddressOf(SeedSource(e, role)), authenticated |-> FALSE,
     disconnects |-> 0]

NoParticipants == [r \in {} |-> FALSE]

NoDefinition ==
    [protocol |-> "", participants |-> <<>>, weights |-> <<>>, quorum |-> 0, challenge |-> 0]

\* appDefinition with the threshold raised to 80
AppDefinition_Quorum80(ps) ==
    [protocol |-> APP_PROTOCOL,
     participants |-> <<ps["rider"].address, ps["driver"].address, ps["app"].address>>,
     weights |-> <<RIDER_WEIGHT, DRIVER_WEIGHT, APP_WEIGHT>>,
     quorum |-> 80,
     challenge |-> CHALLENGE_PERIOD]

\* appDefinition of createApplicationSession
AppDefinition(ps) ==
    [protocol |-> APP_PROTOCOL,
     participants |-> <<ps["rider"].address, ps["driver"].address, ps["app"].address>>,
     weights |-> <<RIDER_WEIGHT, DRIVER_WEIGHT, APP_WEIGHT>>,
     quorum |-> QUORUM_THRESHOLD,
     challenge |-> CHALLENGE_PERIOD]

\* initial allocations of createApplicationSession
InitialAllocations(ps) ==
    << [participant |-> ps["rider"].address, asset |-> "usdc", amount |-> RIDE_FARE],
       [participant |-> ps["driver"].address, asset |-> "usdc", amount |-> <<"0">>],
       [participant |-> ps["app"].address, asset |-> "usdc", amount |-> <<"0">>] >>

\* newAllocations that pays the fare to the app instead of the driver
NewAllocations_AppPaid(ps) ==
    << [participant |-> ps["rider"].address, asset |-> "usdc", amount |-> <<"0">>],
       [participant |-> ps["driver"].address, asset |-> "usdc", amount |-> <<"0">>],
       [participant |-> ps["app"].address, asset |-> "usdc", amount |-> RIDE_FARE] >>

\* newAllocations that pays the driver '1000000', a zero short of the fare
NewAllocations_DroppedDigit(ps) ==
    << [participant |-> ps["rider"].address, asset |-> "usdc", amount |-> <<"0">>],
       [participant |-> ps["driver"].address, asset |-> "usdc", amount |-> Tail(RIDE_FARE)],
       [participant |-> ps["app"].address, asset |-> "usdc", amount |-> <<"0">>] >>

\* newAllocations of updateAllocationsForPayment
NewAllocations(ps) ==
    << [participant |-> ps["rider"].address, asset |-> "usdc", amount |-> <<"0">>],
       [participant |-> ps["driver"].address, asset |-> "usdc", amount |-> RIDE_FARE],
       [participant |-> ps["app"].address, asset |-> "usdc", amount |-> <<"0">>] >>

\* the pickup update signed by the driver alone
PickupSigners_DriverOnly == <<"driver">>

\* signers lists of the three state updates
PickupSigners == <<"driver", "app">>
CompletionSigners == <<"rider", "driver", "app">>
PaymentSigners == <<"rider", "app">>

NoCall ==
    [pc |-> "none", caller |-> "", app_session_id |-> "", version |-> 0,
     allocations |-> <<>>, signers |-> <<>>, i |-> 0, additional |-> <<>>,
     validated |-> {}]

\* the frame of a submitAppState call, suspended at createSubmitAppStateMessage;
\* validated is the set of signers that have checked the allocations against
\* the ledger rules: the function has no such check, the set stays empty
SubmitCall(caller, sessionId, version, allocations, signers) ==
    [pc |-> "building", caller |-> caller, app_session_id |-> sessionId,
     version |-> version, allocations |-> allocations, signers |-> signers,
     i |-> 0, additional |-> <<>>, validated |-> {}]

\* the state update sent through the client of the last signer
StateUpdateMessage_ViaLastSigner(call, additional) ==
    [method |-> "submit_app_state", app_session_id |-> call.app_session_id,
     intent |-> "operate", version |-> call.version,
     allocations |-> call.allocations, definition |-> NoDefinition,
     sig |-> <<call.signers[1]>>, additional_signatures |-> additional,
     via |-> call.signers[Len(call.signers)], answer |-> "none"]

\* the state update as handed to signers[0].client.sendMessage
StateUpdateMessage(call, additional) ==
    [method |-> "submit_app_state", app_session_id |-> call.app_session_id,
     intent |-> "operate", version |-> call.version,
     allocations |-> call.allocations, definition |-> NoDefinition,
     sig |-> <<call.signers[1]>>, additional_signatures |-> additional,
     via |-> call.signers[1], answer |-> "none"]

CreateSessionMessage(ps, allocations) ==
    [method |-> "create_app_session", app_session_id |-> "",
     intent |-> "", version |-> 0,
     allocations |-> allocations, definition |-> AppDefinition(ps),
     sig |-> <<"rider">>, additional_signatures |-> <<>>,
     via |-> "rider", answer |-> "none"]

\* params of a ChannelsUpdate message: id "" and version <<>> stand for undefined
ChannelInfos ==
    [id : {"", "0xSession"},
     version : {<<>>} \cup {<<v>> : v \in 0..MaxAckVersion}]

Running == exitCode = -1

(* ------------------ app_session_two_signers: values ------------------- *)

\* appDefinition of app_session_two_signers
TwoSignersDefinition(userAddress, partnerAddress) ==
    [protocol |-> "NitroRPC/0.4",
     participants |-> <<userAddress, partnerAddress>>,
     weights |-> <<50, 50>>,
     quorum |-> 100,
     challenge |-> 0]

\* allocations: '0.01' for the user, '0.00' for the partner
TwoSignersAllocations(userAddress, partnerAddress) ==
    << [participant |-> userAddress, asset |-> "usdc", amount |-> <<"0", ".", "0", "1">>],
       [participant |-> partnerAddress, asset |-> "usdc", amount |-> <<"0", ".", "0", "0">>] >>

\* finalAllocations that overdraws the user: '-0.01' and '0.02'
TwoSignersFinalAllocations_Overdrawn(userAddress, partnerAddress) ==
    << [participant |-> userAddress, asset |-> "usdc", amount |-> <<"-", "0", ".", "0", "1">>],
       [participant |-> partnerAddress, asset |-> "usdc", amount |-> <<"0", ".", "0", "2">>] >>

\* finalAllocations: '0.00' for the user, '0.01' for the partner
TwoSignersFinalAllocations(userAddress, partnerAddress) ==
    << [participant |-> userAddress, asset |-> "usdc", amount |-> <<"0", ".", "0", "0">>],
       [participant |-> partnerAddress, asset |-> "usdc", amount |-> <<"0", ".", "0", "1">>] >>

NoMessage ==
    [method |-> "", app_session_id |-> "", intent |-> "", version |-> 0,
     allocations |-> <<>>, definition |-> NoDefinition, sig |-> <<>>,
     additional_signatures |-> <<>>, via |-> "", answer |-> "none"]

\* the req of a message: what a message signer signs
Req(m) == [method |-> m.method, app_session_id |-> m.app_session_id,
           allocations |-> m.allocations]

\* a signature: the key that signed and the req it signed
NoSignature == [key |-> "", req |-> Req(NoMessage)]

NoLocals ==
    [userAddress |-> "", partnerAddress |-> "", allocations |-> <<>>,
     finalAllocations |-> <<>>, sessionResponse |-> "",
     submitAppStateMessage |-> NoMessage, closeSessionMessageJson |-> NoMessage,
     signature2 |-> NoSignature]

\* the wallet and session key of the n-th authenticateWallet call
WalletKey(n) == IF n = 1 THEN "wallet1" ELSE "wallet2"

\* the handshake of each authenticateWallet call: "none" before the call,
\* "requested" once the auth request is sent, "challenged" once the
\* AuthChallenge is answered with an auth verify message, "verified" once the
\* backend's AuthVerify has arrived
NoHandshake == <<"none", "none">>

\* the appSessionId of the response to the create request; "" when the
\* response carries none
SessionResponses == {"", "0xSession"}

(* --------------------------- quorum evaluator ------------------------- *)

NoResult == [approved |-> FALSE, achievedWeight |-> 0, error |-> "not evaluated"]

NoEvaluation == [definition |-> NoDefinition, signerIds |-> <<>>, result |-> NoResult]

\* the locals of a one-listener script before main runs: argv and whether the
\* server's config has a Base entry are fixed for the run; verifies and errors
\* count the AuthVerify and Error messages received, verified tells that an
\* AuthVerify reporting success was handled; config, resize and channel tell
\* whether the script's request of that kind awaits its response, answers
\* counts the CreateChannel or ResizeChannel responses handled; pending
\* holds the handlers suspended at an await; onchain lists the on-chain calls
NoScript ==
    [argv |-> [resize |-> <<>>, allocate |-> <<>>], hasBase |-> FALSE,
     brokerAddress |-> "", baseNetwork |-> FALSE,
     verifies |-> 0, verified |-> FALSE, errors |-> 0,
     config |-> "none", resize |-> "none", channel |-> "none", answers |-> 0,
     pending |-> <<>>, onchain |-> <<>>]

Known(definition, participantId) ==
    \E k \in DOMAIN definition.participants : definition.participants[k] = participantId

\* weightOf(definition, participantId); the caller handles UnknownParticipant
weightOf(definition, participantId) ==
    definition.weights[CHOOSE k \in DOMAIN definition.participants :
                           definition.participants[k] = participantId]

RECURSIVE SumSeq(_)
SumSeq(weights) == IF Len(weights) = 0 THEN 0 ELSE weights[1] + SumSeq(Tail(weights))

totalWeight(definition) == SumSeq(definition.weights)

\* the weight of every signature, repeated signers included
RECURSIVE AchievedWeight_EverySignature(_, _, _)
AchievedWeight_EverySignature(definition, signerIds, seen) ==
    IF Len(signerIds) = 0 THEN 0
    ELSE weightOf(definition, signerIds[1])
         + AchievedWeight_EverySignature(definition, Tail(signerIds), seen)

\* the weight the signers add one after the other; a signer that is in
\* seen has signed before and adds nothing
RECURSIVE AchievedWeight(_, _, _)
AchievedWeight(definition, signerIds, seen) ==
    IF Len(signerIds) = 0 THEN 0
    ELSE IF signerIds[1] \in seen
         THEN AchievedWeight(definition, Tail(signerIds), seen)
         ELSE weightOf(definition, signerIds[1])
              + AchievedWeight(definition, Tail(signerIds), seen \cup {signerIds[1]})

\* evaluate(definition, signerIds): approved when achievedWeight * 100 >=
\* quorum * totalWeight; an unknown signer fails with UnknownParticipant
evaluate(definition, signerIds) ==
    IF \E k \in DOMAIN signerIds : ~Known(definition, signerIds[k])
    THEN [approved |-> FALSE, achievedWeight |-> 0, error |-> "UnknownParticipant"]
    ELSE LET achieved == AchievedWeight(definition, signerIds, {})
         IN  [approved |-> achieved * 100 >= definition.quorum * totalWeight(definition),
              achievedWeight |-> achieved,
              error |-> ""]

(* ------------------------------- Init --------------------------------- *)

InitRideshare ==
    /\ program = "rideshare_demo"
    /\ env \in Environments
    /\ mainPc = "start"
    /\ exitCode = -1
    /\ participants = NoParticipants
    /\ listening = {}
    /\ currentRideStatus = IDLE
    /\ statusLog = <<IDLE>>
    /\ appSessionId = "null"
    /\ currentAllocations = <<>>
    /\ currentVersion = 0
    /\ createPc = "none"
    /\ timers = {}
    /\ submit = NoCall
    /\ outbox = <<>>
    /\ twoSigners = NoLocals
    /\ handshake = NoHandshake
    /\ evaluation = NoEvaluation
    /\ script = NoScript

(* ------------------------ rideshare_demo: main ------------------------ *)

\* main: the three initializeParticipant calls and participants.set;
\* a missing seed phrase throws and the catch block exits with code 1
MainInitialize ==
    /\ program = "rideshare_demo" /\ Running /\ mainPc = "start"
    /\ IF \E r \in Roles : SeedSource(env, r) = ""
       THEN /\ exitCode' = 1
            /\ mainPc' = "exited"
            /\ UNCHANGED participants
       ELSE /\ participants' = [r \in Roles |-> initializeParticipant(env, r)]
            /\ mainPc' = "auth_rider"
            /\ UNCHANGED exitCode
    /\ UNCHANGED <<program, script, twoSigners, evaluation, handshake, env, listening, currentRideStatus, statusLog, appSessionId,
                   currentAllocations, currentVersion, createPc, timers, submit,
                   outbox>>

NextAuthPc(role) ==
    CASE role = "rider" -> "auth_driver"
      [] role = "driver" -> "auth_app"
      [] role = "app" -> "done"

\* authenticateParticipant: registers the listener and sends the auth request
authenticateParticipant(role) ==
    /\ program = "rideshare_demo" /\ Running
    /\ mainPc = CASE role = "rider" -> "auth_rider"
                  [] role = "driver" -> "auth_driver"
                  [] role = "app" -> "auth_app"
    /\ listening' = listening \cup {role}
    /\ mainPc' = NextAuthPc(role)
    /\ UNCHANGED <<program, script, twoSigners, evaluation, handshake, env, exitCode, participants, currentRideStatus, statusLog,
                   appSessionId, currentAllocations, currentVersion, createPc,
                   timers, submit, outbox>>

(* ------------------- rideshare_demo: message handlers ----------------- *)

AllAuthenticated(ps) == \A r \in DOMAIN ps : ps[r].authenticated

\* the AuthVerify case starting the flow whatever the ride status is
HandleAuthVerify_NoIdleTest(p, success) ==
    /\ program = "rideshare_demo" /\ Running /\ p \in listening
    /\ LET ps == [participants EXCEPT ![p].authenticated = TRUE]
       IN  /\ participants' = ps
           /\ IF AllAuthenticated(ps)
              THEN /\ currentRideStatus' = CREATING_SESSION
                   /\ statusLog' = Append(statusLog, CREATING_SESSION)
                   /\ currentAllocations' = InitialAllocations(ps)
                   /\ createPc' = "signing"
              ELSE UNCHANGED <<currentRideStatus, statusLog, currentAllocations, createPc>>
    /\ UNCHANGED <<program, script, twoSigners, evaluation, handshake, env, mainPc, exitCode,
                   listening, appSessionId, currentVersion, timers, submit, outbox>>

\* handleParticipantMessage, case AuthVerify: marks the participant and calls
\* onParticipantAuthenticated, which starts createApplicationSession (up to its
\* first await) when everyone is authenticated and the status is IDLE;
\* success is response.params.success, which the case never reads
HandleAuthVerify(p, success) ==
    /\ program = "rideshare_demo" /\ Running /\ p \in listening
    /\ LET ps == [participants EXCEPT ![p].authenticated = TRUE]
       IN  /\ participants' = ps
           /\ IF AllAuthenticated(ps) /\ currentRideStatus = IDLE
              THEN /\ currentRideStatus' = CREATING_SESSION
                   /\ statusLog' = Append(statusLog, CREATING_SESSION)
                   /\ currentAllocations' = InitialAllocations(ps)
                   /\ createPc' = "signing"
              ELSE UNCHANGED <<currentRideStatus, statusLog, currentAllocations, createPc>>
    /\ UNCHANGED <<program, script, twoSigners, evaluation, handshake, env, mainPc, exitCode, listening, appSessionId,
                   currentVersion, timers, submit, outbox>>

\* handleParticipantMessage, case ChannelsUpdate -> onChannelUpdate; in the
\* first branch transitionToState(SESSION_CREATED) runs on to RIDE_BOOKED and
\* arms the pickup timer within the same callback
onChannelUpdate(p, channelInfo) ==
    /\ program = "rideshare_demo" /\ Running /\ p \in listening
    /\ IF currentRideStatus = CREATING_SESSION
       THEN /\ appSessionId' = IF channelInfo.id # "" THEN channelInfo.id ELSE "session-now"
            /\ currentVersion' = 0
            /\ currentRideStatus' = RIDE_BOOKED
            /\ statusLog' = statusLog \o <<SESSION_CREATED, RIDE_BOOKED>>
            /\ timers' = timers \cup {"pickup"}
       ELSE /\ IF channelInfo.version # <<>>
               THEN currentVersion' = channelInfo.version[1]
               ELSE UNCHANGED currentVersion
            /\ UNCHANGED <<appSessionId, currentRideStatus, statusLog, timers>>
    /\ UNCHANGED <<program, script, twoSigners, evaluation, handshake, env, mainPc, exitCode, participants, listening,
                   currentAllocations, createPc, submit, outbox>>

\* the Error case sending the rejected message once more
HandleError_Resend(p, i) ==
    /\ program = "rideshare_demo" /\ Running /\ p \in listening
    /\ i \in DOMAIN outbox /\ outbox[i].answer = "none"
    /\ Cardinality({k \in DOMAIN outbox : outbox[k].answer = "error"}) < MaxErrors
    /\ outbox' = Append([outbox EXCEPT ![i].answer = "error"], outbox[i])
    /\ UNCHANGED <<program, script, twoSigners, evaluation, handshake, env, mainPc, exitCode,
                   participants, listening, currentRideStatus, statusLog, appSessionId,
                   currentAllocations, currentVersion, createPc, timers, submit>>

\* handleParticipantMessage, case Error: the backend's rejection of message i
\* is logged; outbox[i].answer records that the backend rejected it
HandleError(p, i) ==
    /\ program = "rideshare_demo" /\ Running /\ p \in listening
    /\ i \in DOMAIN outbox /\ outbox[i].answer = "none"
    /\ Cardinality({k \in DOMAIN outbox : outbox[k].answer = "error"}) < MaxErrors
    /\ outbox' = [outbox EXCEPT ![i].answer = "error"]
    /\ UNCHANGED <<program, script, twoSigners, evaluation, handshake, env, mainPc, exitCode, participants, listening,
                   currentRideStatus, statusLog, appSessionId, currentAllocations,
                   currentVersion, createPc, timers, submit>>

(* ------------- rideshare_demo: createApplicationSession --------------- *)

\* createAppSessionMessage has resolved: the message goes to rider.client
CreateSessionSend ==
    /\ program = "rideshare_demo" /\ Running /\ createPc = "signing"
    /\ outbox' = Append(outbox, CreateSessionMessage(participants, currentAllocations))
    /\ createPc' = "sending"
    /\ UNCHANGED <<program, script, twoSigners, evaluation, handshake, env, mainPc, exitCode, participants, listening,
                   currentRideStatus, statusLog, appSessionId, currentAllocations,
                   currentVersion, timers, submit>>

\* sendMessage has resolved: the 1500 ms confirmation timer is armed
CreateSessionSent ==
    /\ program = "rideshare_demo" /\ Running /\ createPc = "sending"
    /\ timers' = timers \cup {"session_confirm"}
    /\ createPc' = "done"
    /\ UNCHANGED <<program, script, twoSigners, evaluation, handshake, env, mainPc, exitCode, participants, listening,
                   currentRideStatus, statusLog, appSessionId, currentAllocations,
                   currentVersion, submit, outbox>>

(* ------------------------ rideshare_demo: timers ---------------------- *)

\* the callback without its test of currentRideStatus
TimerSessionConfirm_Unguarded ==
    /\ program = "rideshare_demo" /\ Running /\ "session_confirm" \in timers
    /\ currentRideStatus' = RIDE_BOOKED
    /\ statusLog' = statusLog \o <<SESSION_CREATED, RIDE_BOOKED>>
    /\ timers' = (timers \ {"session_confirm"}) \cup {"pickup"}
    /\ UNCHANGED <<program, script, twoSigners, evaluation, handshake, env, mainPc, exitCode,
                   participants, listening, appSessionId, currentAllocations,
                   currentVersion, createPc, submit, outbox>>

\* the callback confirming nothing: the session waits for a ChannelsUpdate
TimerSessionConfirm_Dropped ==
    /\ program = "rideshare_demo" /\ Running /\ "session_confirm" \in timers
    /\ timers' = timers \ {"session_confirm"}
    /\ UNCHANGED <<program, script, twoSigners, evaluation, handshake, env, mainPc, exitCode,
                   participants, listening, currentRideStatus, statusLog,
                   appSessionId, currentAllocations, currentVersion, createPc,
                   submit, outbox>>

\* the setTimeout callback of createApplicationSession
TimerSessionConfirm ==
    /\ program = "rideshare_demo" /\ Running /\ "session_confirm" \in timers
    /\ IF currentRideStatus = CREATING_SESSION
       THEN /\ currentRideStatus' = RIDE_BOOKED
            /\ statusLog' = statusLog \o <<SESSION_CREATED, RIDE_BOOKED>>
            /\ timers' = (timers \ {"session_confirm"}) \cup {"pickup"}
       ELSE /\ timers' = timers \ {"session_confirm"}
            /\ UNCHANGED <<currentRideStatus, statusLog>>
    /\ UNCHANGED <<program, script, twoSigners, evaluation, handshake, env, mainPc, exitCode, participants, listening,
                   appSessionId, currentAllocations, currentVersion, createPc,
                   submit, outbox>>

\* simulatePickup up to the first await of submitAppState
simulatePickup ==
    /\ program = "rideshare_demo" /\ Running /\ "pickup" \in timers
    /\ timers' = timers \ {"pickup"}
    /\ submit' = SubmitCall("simulatePickup", appSessionId, currentVersion + 1,
                            currentAllocations, PickupSigners)
    /\ UNCHANGED <<program, script, twoSigners, evaluation, handshake, env, mainPc, exitCode, participants, listening,
                   currentRideStatus, statusLog, appSessionId, currentAllocations,
                   currentVersion, createPc, outbox>>

\* RIDE_IN_PROGRESS arming the payment instead of the completion
TimerRideInProgress_ArmsPayment ==
    /\ program = "rideshare_demo" /\ Running /\ "progress" \in timers
    /\ currentRideStatus' = RIDE_IN_PROGRESS
    /\ statusLog' = Append(statusLog, RIDE_IN_PROGRESS)
    /\ timers' = (timers \ {"progress"}) \cup {"payment"}
    /\ UNCHANGED <<program, script, twoSigners, evaluation, handshake, env, mainPc, exitCode,
                   participants, listening, appSessionId, currentAllocations,
                   currentVersion, createPc, submit, outbox>>

\* the timer armed in PICKUP_CONFIRMED: transitionToState(RIDE_IN_PROGRESS)
TimerRideInProgress ==
    /\ program = "rideshare_demo" /\ Running /\ "progress" \in timers
    /\ currentRideStatus' = RIDE_IN_PROGRESS
    /\ statusLog' = Append(statusLog, RIDE_IN_PROGRESS)
    /\ timers' = (timers \ {"progress"}) \cup {"completion"}
    /\ UNCHANGED <<program, script, twoSigners, evaluation, handshake, env, mainPc, exitCode, participants, listening,
                   appSessionId, currentAllocations, currentVersion, createPc,
                   submit, outbox>>

\* simulateRideCompletion up to the first await of submitAppState
simulateRideCompletion ==
    /\ program = "rideshare_demo" /\ Running /\ "completion" \in timers
    /\ timers' = timers \ {"completion"}
    /\ submit' = SubmitCall("simulateRideCompletion", appSessionId, currentVersion + 1,
                            currentAllocations, CompletionSigners)
    /\ UNCHANGED <<program, script, twoSigners, evaluation, handshake, env, mainPc, exitCode, participants, listening,
                   currentRideStatus, statusLog, appSessionId, currentAllocations,
                   currentVersion, createPc, outbox>>

\* updateAllocationsForPayment up to the first await of submitAppState
updateAllocationsForPayment ==
    /\ program = "rideshare_demo" /\ Running /\ "payment" \in timers
    /\ timers' = timers \ {"payment"}
    /\ submit' = SubmitCall("updateAllocationsForPayment", appSessionId, currentVersion + 1,
                            NewAllocations(participants), PaymentSigners)
    /\ UNCHANGED <<program, script, twoSigners, evaluation, handshake, env, mainPc, exitCode, participants, listening,
                   currentRideStatus, statusLog, appSessionId, currentAllocations,
                   currentVersion, createPc, outbox>>

\* cleanup without its try/catch: the first rejected disconnect ends the
\* loop and the process with the unhandled rejection
cleanup_Uncaught(rejected) ==
    /\ program = "rideshare_demo" /\ Running /\ "cleanup" \in timers
    /\ timers' = timers \ {"cleanup"}
    /\ LET reached == {r \in Roles :
                          \/ r = "rider"
                          \/ r = "driver" /\ "rider" \notin rejected
                          \/ r = "app" /\ rejected \cap {"rider", "driver"} = {}}
       IN  /\ participants' =
                [r \in Roles |->
                    IF r \in reached
                    THEN [participants[r] EXCEPT !.disconnects = @ + 1]
                    ELSE participants[r]]
           /\ exitCode' = IF rejected = {} THEN 0 ELSE 1
    /\ listening' = {}
    /\ mainPc' = "exited"
    /\ UNCHANGED <<program, script, twoSigners, evaluation, handshake, env,
                   currentRideStatus, statusLog, appSessionId, currentAllocations,
                   currentVersion, createPc, submit, outbox>>

\* cleanup: client.disconnect() is called and awaited for each participant in
\* the order of the map; a rejection (the participants in rejected) is caught
\* and logged, which leaves no trace in the state, and the loop goes on; then
\* process.exit(0). The handlers that can run during these awaits send
\* nothing and arm no timer, so the function is taken as one step
cleanup(rejected) ==
    /\ program = "rideshare_demo" /\ Running /\ "cleanup" \in timers
    /\ timers' = timers \ {"cleanup"}
    /\ participants' =
            [r \in Roles |->
                [participants[r] EXCEPT !.disconnects = @ + 1]]
    /\ listening' = {}
    /\ exitCode' = 0
    /\ mainPc' = "exited"
    /\ UNCHANGED <<program, script, twoSigners, evaluation, handshake, env,
                   currentRideStatus, statusLog, appSessionId, currentAllocations,
                   currentVersion, createPc, submit, outbox>>

(* --------------------- rideshare_demo: submitAppState ----------------- *)

\* createSubmitAppStateMessage (signed by signers[0]) has resolved; with one
\* signer the message is sent at once, otherwise the signature loop starts
SubmitBuilt ==
    /\ program = "rideshare_demo" /\ Running /\ submit.pc = "building"
    /\ IF Len(submit.signers) > 1
       THEN /\ submit' = [submit EXCEPT !.pc = "signing", !.i = 2]
            /\ UNCHANGED outbox
       ELSE /\ submit' = [submit EXCEPT !.pc = "sending"]
            /\ outbox' = Append(outbox, StateUpdateMessage(submit, <<>>))
    /\ UNCHANGED <<program, script, twoSigners, evaluation, handshake, env, mainPc, exitCode, participants, listening,
                   currentRideStatus, statusLog, appSessionId, currentAllocations,
                   currentVersion, createPc, timers>>

\* one turn of the loop over signers[1..]: signer.messageSigner has resolved
\* and its signature is pushed; after the last one the message is sent
SubmitSigned ==
    /\ program = "rideshare_demo" /\ Running /\ submit.pc = "signing"
    /\ LET signer == submit.signers[submit.i]
           additional == Append(submit.additional,
                                [participant |-> participants[signer].address,
                                 signature |-> signer])
       IN  IF submit.i < Len(submit.signers)
           THEN /\ submit' = [submit EXCEPT !.i = @ + 1, !.additional = additional]
                /\ UNCHANGED outbox
           ELSE /\ submit' = [submit EXCEPT !.pc = "sending", !.additional = additional]
                /\ outbox' = Append(outbox, StateUpdateMessage(submit, additional))
    /\ UNCHANGED <<program, script, twoSigners, evaluation, handshake, env, mainPc, exitCode, participants, listening,
                   currentRideStatus, statusLog, appSessionId, currentAllocations,
                   currentVersion, createPc, timers>>

\* sendMessage has resolved: currentVersion = version, then the caller goes on
\* (its transitionToState arms the next timer)
SubmitSent ==
    /\ program = "rideshare_demo" /\ Running /\ submit.pc = "sending"
    /\ currentVersion' = submit.version
    /\ submit' = NoCall
    /\ CASE submit.caller = "simulatePickup" ->
              /\ currentRideStatus' = PICKUP_CONFIRMED
              /\ statusLog' = Append(statusLog, PICKUP_CONFIRMED)
              /\ timers' = timers \cup {"progress"}
              /\ UNCHANGED currentAllocations
         [] submit.caller = "simulateRideCompletion" ->
              /\ currentRideStatus' = RIDE_COMPLETED
              /\ statusLog' = Append(statusLog, RIDE_COMPLETED)
              /\ timers' = timers \cup {"payment"}
              /\ UNCHANGED currentAllocations
         [] submit.caller = "updateAllocationsForPayment" ->
              /\ currentAllocations' = submit.allocations
              /\ currentRideStatus' = ALLOCATIONS_UPDATED
              /\ statusLog' = Append(statusLog, ALLOCATIONS_UPDATED)
              /\ timers' = timers \cup {"cleanup"}
    /\ UNCHANGED <<program, script, twoSigners, evaluation, handshake, env, mainPc, exitCode, participants, listening,
                   appSessionId, createPc, outbox>>

(* -------------------- app_session_two_signers: main ------------------- *)

InitTwoSigners ==
    /\ program = "app_session_two_signers"
    /\ env \in {[v \in EnvVars |-> v \in set] :
                    set \in {{"SEED_PHRASE", "WALLET_2_SEED_PHRASE"}, {"SEED_PHRASE"}}}
    /\ mainPc = "start"
    /\ exitCode = -1
    /\ participants = NoParticipants
    /\ listening = {}
    /\ currentRideStatus = IDLE
    /\ statusLog = <<IDLE>>
    /\ appSessionId = "null"
    /\ currentAllocations = <<>>
    /\ currentVersion = 0
    /\ createPc = "none"
    /\ timers = {}
    /\ submit = NoCall
    /\ outbox = <<>>
    /\ twoSigners = NoLocals
    /\ handshake = NoHandshake
    /\ evaluation = NoEvaluation
    /\ script = NoScript

RideshareVars ==
    <<participants, listening, currentRideStatus, statusLog, appSessionId, currentAllocations,
      currentVersion, createPc, timers, submit>>

\* steps 1-2: connect, then the two wallet clients; mnemonicToAccount throws
\* on a missing seed phrase and the catch of main sets exitCode 1
TwoSignersConnect ==
    /\ program = "app_session_two_signers" /\ Running /\ mainPc = "start"
    /\ IF env["SEED_PHRASE"] /\ env["WALLET_2_SEED_PHRASE"]
       THEN /\ mainPc' = "authenticate_1"
            /\ twoSigners' = [twoSigners EXCEPT
                                !.userAddress = AddressOf("SEED_PHRASE"),
                                !.partnerAddress = AddressOf("WALLET_2_SEED_PHRASE")]
            /\ UNCHANGED exitCode
       ELSE /\ mainPc' = "failed"
            /\ exitCode' = 1
            /\ UNCHANGED twoSigners
    /\ UNCHANGED <<program, script, env, handshake, outbox, evaluation>>
    /\ UNCHANGED RideshareVars

\* the authenticate calls whose AuthChallenge listener is registered
Listeners == {n \in DOMAIN handshake : handshake[n] # "none"}

\* the auth verify messages the registered listeners send for one AuthChallenge
AuthVerifyMessages ==
    LET order == SelectSeq(<<1, 2>>, LAMBDA n : n \in Listeners)
    IN  [k \in DOMAIN order |->
            [NoMessage EXCEPT !.method = "auth_verify",
                              !.sig = <<WalletKey(order[k])>>, !.via = "yellow"]]

\* step 3: one authenticateWallet call, the helper of lib/auth: it registers
\* its AuthChallenge listener, sends the auth request and returns the session
\* key once sendMessage has resolved; after the second call the definition
\* and the allocations are built and createAppSessionMessage is called
TwoSignersAuthenticate(n) ==
    /\ program = "app_session_two_signers" /\ Running
    /\ mainPc = IF n = 1 THEN "authenticate_1" ELSE "authenticate_2"
    /\ handshake' = [handshake EXCEPT ![n] = "requested"]
    /\ listening' = listening \cup {"yellow"}
    /\ outbox' = Append(outbox, [NoMessage EXCEPT !.method = "auth_request",
                                                  !.via = "yellow"])
    /\ IF n = 1
       THEN /\ mainPc' = "authenticate_2"
            /\ UNCHANGED twoSigners
       ELSE /\ mainPc' = "create_message"
            /\ twoSigners' = [twoSigners EXCEPT !.allocations =
                    TwoSignersAllocations(twoSigners.userAddress, twoSigners.partnerAddress)]
    /\ UNCHANGED <<program, script, env, exitCode, evaluation>>
    /\ UNCHANGED <<participants, currentRideStatus, statusLog, appSessionId,
                   currentAllocations, currentVersion, createPc, timers, submit>>

\* the backend's AuthChallenge for the n-th auth request arrives: every
\* registered listener runs handleAuthChallenge and sends an auth verify message
TwoSignersAuthChallenge(n) ==
    /\ program = "app_session_two_signers" /\ Running
    /\ handshake[n] = "requested"
    /\ handshake' = [handshake EXCEPT ![n] = "challenged"]
    /\ outbox' = outbox \o AuthVerifyMessages
    /\ UNCHANGED <<program, script, env, mainPc, exitCode, twoSigners, evaluation>>
    /\ UNCHANGED RideshareVars

\* the backend's AuthVerify for the n-th handshake arrives; the listeners of
\* lib/auth handle AuthChallenge only, the script does nothing with it
TwoSignersAuthVerify(n) ==
    /\ program = "app_session_two_signers" /\ Running
    /\ handshake[n] = "challenged"
    /\ handshake' = [handshake EXCEPT ![n] = "verified"]
    /\ UNCHANGED <<program, script, env, mainPc, exitCode, outbox, twoSigners, evaluation>>
    /\ UNCHANGED RideshareVars

\* step 6: the session message, signed by the first participant, is sent
TwoSignersCreateSession ==
    /\ program = "app_session_two_signers" /\ Running /\ mainPc = "create_message"
    /\ outbox' = Append(outbox,
          [NoMessage EXCEPT !.method = "create_app_session",
                            !.allocations = twoSigners.allocations,
                            !.definition = TwoSignersDefinition(twoSigners.userAddress,
                                                                twoSigners.partnerAddress),
                            !.sig = <<WalletKey(1)>>, !.via = "yellow"])
    /\ mainPc' = "create_sent"
    /\ UNCHANGED <<program, script, env, handshake, exitCode, twoSigners, evaluation>>
    /\ UNCHANGED RideshareVars

\* step 7: the response has arrived; finalAllocations is built and
\* createSubmitAppStateMessage is called
TwoSignersSessionResponse(response) ==
    /\ program = "app_session_two_signers" /\ Running /\ mainPc = "create_sent"
    /\ twoSigners' = [twoSigners EXCEPT
                        !.sessionResponse = response,
                        !.finalAllocations = TwoSignersFinalAllocations(
                              twoSigners.userAddress, twoSigners.partnerAddress)]
    /\ mainPc' = "submit_message"
    /\ UNCHANGED <<program, script, env, handshake, exitCode, outbox, evaluation>>
    /\ UNCHANGED RideshareVars

\* the state-update message has been built (it is parsed and logged);
\* step 8: createCloseAppSessionMessage is called
TwoSignersSubmitBuilt ==
    /\ program = "app_session_two_signers" /\ Running /\ mainPc = "submit_message"
    /\ twoSigners' = [twoSigners EXCEPT !.submitAppStateMessage =
          [NoMessage EXCEPT !.method = "submit_app_state",
                            !.app_session_id = twoSigners.sessionResponse,
                            !.allocations = twoSigners.finalAllocations,
                            !.sig = <<WalletKey(1)>>]]
    /\ mainPc' = "close_message"
    /\ UNCHANGED <<program, script, env, handshake, exitCode, outbox, evaluation>>
    /\ UNCHANGED RideshareVars

\* the close message, signed by the first participant, has been built and
\* parsed; step 9: messageSigner2 is called on its req
TwoSignersCloseBuilt ==
    /\ program = "app_session_two_signers" /\ Running /\ mainPc = "close_message"
    /\ LET built == [NoMessage EXCEPT !.method = "close_app_session",
                                      !.app_session_id = twoSigners.sessionResponse,
                                      !.allocations = twoSigners.finalAllocations,
                                      !.sig = <<WalletKey(1)>>]
       IN  twoSigners' = [twoSigners EXCEPT
                            !.closeSessionMessageJson = built,
                            !.signature2 = [key |-> WalletKey(2), req |-> Req(built)]]
    /\ mainPc' = "close_sign"
    /\ UNCHANGED <<program, script, env, handshake, exitCode, outbox, evaluation>>
    /\ UNCHANGED RideshareVars

\* the message is sent with the first participant's signature only
TwoSignersCloseSigned_SecondMissing ==
    /\ program = "app_session_two_signers" /\ Running /\ mainPc = "close_sign"
    /\ LET signed == [twoSigners.closeSessionMessageJson EXCEPT !.via = "yellow"]
       IN  /\ twoSigners' = [twoSigners EXCEPT !.closeSessionMessageJson = signed]
           /\ outbox' = Append(outbox, signed)
    /\ mainPc' = "close_sent"
    /\ UNCHANGED <<program, script, env, handshake, exitCode, evaluation>>
    /\ UNCHANGED RideshareVars

\* signature2 is pushed onto sig; step 10: the message is sent
TwoSignersCloseSigned ==
    /\ program = "app_session_two_signers" /\ Running /\ mainPc = "close_sign"
    /\ LET signed == [twoSigners.closeSessionMessageJson EXCEPT
                        !.sig = Append(@, twoSigners.signature2.key), !.via = "yellow"]
       IN  /\ twoSigners' = [twoSigners EXCEPT !.closeSessionMessageJson = signed]
           /\ outbox' = Append(outbox, signed)
    /\ mainPc' = "close_sent"
    /\ UNCHANGED <<program, script, env, handshake, exitCode, evaluation>>
    /\ UNCHANGED RideshareVars

\* the close response has arrived and the close message is sent once more
TwoSignersCloseResponse_SendsAgain ==
    /\ program = "app_session_two_signers" /\ Running /\ mainPc = "close_sent"
    /\ mainPc' = "done"
    /\ listening' = listening \cup {"yellow"}
    /\ outbox' = Append(outbox, twoSigners.closeSessionMessageJson)
    /\ UNCHANGED <<program, script, env, handshake, exitCode, twoSigners, evaluation>>
    /\ UNCHANGED <<participants, currentRideStatus, statusLog, appSessionId, currentAllocations,
                   currentVersion, createPc, timers, submit>>

\* the close response has arrived; the listener is registered and main returns
TwoSignersCloseResponse ==
    /\ program = "app_session_two_signers" /\ Running /\ mainPc = "close_sent"
    /\ mainPc' = "done"
    /\ listening' = listening \cup {"yellow"}
    /\ UNCHANGED <<program, script, env, handshake, exitCode, outbox, twoSigners, evaluation>>
    /\ UNCHANGED <<participants, currentRideStatus, statusLog, appSessionId, currentAllocations,
                   currentVersion, createPc, timers, submit>>

(* ------------------- connect_auth_get_balances: main ------------------ *)

\* the script has one handshake, handshake[1]; "lost" says that its
\* AuthChallenge arrived while no listener was registered
InitConnectAuth ==
    /\ program = "connect_auth_get_balances"
    /\ env \in {[v \in EnvVars |-> v \in set] : set \in {{"SEED_PHRASE"}, {}}}
    /\ mainPc = "start"
    /\ exitCode = -1
    /\ participants = NoParticipants
    /\ listening = {}
    /\ currentRideStatus = IDLE
    /\ statusLog = <<IDLE>>
    /\ appSessionId = "null"
    /\ currentAllocations = <<>>
    /\ currentVersion = 0
    /\ createPc = "none"
    /\ timers = {}
    /\ submit = NoCall
    /\ outbox = <<>>
    /\ twoSigners = NoLocals
    /\ handshake = NoHandshake
    /\ evaluation = NoEvaluation
    /\ script = NoScript

\* what the scripts other than rideshare_demo leave alone
SessionVars ==
    <<participants, currentRideStatus, statusLog, appSessionId, currentAllocations,
      currentVersion, createPc, timers, submit, twoSigners, evaluation>>

\* main up to yellow.sendMessage(authMessage): a missing SEED_PHRASE throws,
\* main().catch logs the error and the process ends; otherwise the client
\* connects and the auth request is sent
ConnectAuthSendRequest ==
    /\ program = "connect_auth_get_balances" /\ Running /\ mainPc = "start"
    /\ IF env["SEED_PHRASE"]
       THEN /\ outbox' = Append(outbox, [NoMessage EXCEPT !.method = "auth_request",
                                                          !.via = "yellow"])
            /\ handshake' = [handshake EXCEPT ![1] = "requested"]
            /\ mainPc' = "auth_sent"
            /\ UNCHANGED exitCode
       ELSE /\ mainPc' = "failed"
            /\ exitCode' = 0
            /\ UNCHANGED <<outbox, handshake>>
    /\ UNCHANGED <<program, script, env, listening>>
    /\ UNCHANGED SessionVars

\* the await of sendMessage has resolved: yellow.listen registers the
\* listener, then publicClient.getBlockNumber is called
ConnectAuthListen ==
    /\ program = "connect_auth_get_balances" /\ Running /\ mainPc = "auth_sent"
    /\ listening' = listening \cup {"yellow"}
    /\ mainPc' = "block_number"
    /\ UNCHANGED <<program, script, env, exitCode, outbox, handshake>>
    /\ UNCHANGED SessionVars

\* getBlockNumber has resolved: the block number is logged and main returns
ConnectAuthBlockNumber ==
    /\ program = "connect_auth_get_balances" /\ Running /\ mainPc = "block_number"
    /\ mainPc' = "done"
    /\ UNCHANGED <<program, script, env, exitCode, listening, outbox, handshake>>
    /\ UNCHANGED SessionVars

\* the server's AuthChallenge arrives: the listener, when registered, answers
\* with an auth verify message; with no listener nothing handles the message
ConnectAuthChallenge ==
    /\ program = "connect_auth_get_balances" /\ Running
    /\ handshake[1] = "requested"
    /\ IF "yellow" \in listening
       THEN /\ handshake' = [handshake EXCEPT ![1] = "challenged"]
            /\ outbox' = Append(outbox, [NoMessage EXCEPT !.method = "auth_verify",
                                                          !.sig = <<WalletKey(1)>>,
                                                          !.via = "yellow"])
       ELSE /\ handshake' = [handshake EXCEPT ![1] = "lost"]
            /\ UNCHANGED outbox
    /\ UNCHANGED <<program, script, env, mainPc, exitCode, listening>>
    /\ UNCHANGED SessionVars

\* the server's AuthVerify arrives: the listener logs it
ConnectAuthVerify ==
    /\ program = "connect_auth_get_balances" /\ Running
    /\ handshake[1] = "challenged"
    /\ handshake' = [handshake EXCEPT ![1] = "verified"]
    /\ UNCHANGED <<program, script, env, mainPc, exitCode, listening, outbox>>
    /\ UNCHANGED SessionVars

(* ---------------- the scripts with one listener: values --------------- *)

\* a request of a one-listener script, as handed to yellow.sendMessage: a
\* message with no session fields, and the funds destination of a resize
ScriptMessage(method, destination) ==
    [method |-> method, app_session_id |-> "", intent |-> "", version |-> 0,
     allocations |-> <<>>, definition |-> NoDefinition, sig |-> <<>>,
     additional_signatures |-> <<>>, via |-> "yellow", answer |-> "none",
     funds_destination |-> destination]

\* a handler suspended at an await: the step it resumes with
Suspended(step, destination) == [step |-> step, funds_destination |-> destination]

\* the sequence without its i-th element
Remove(seq, i) == SubSeq(seq, 1, i - 1) \o SubSeq(seq, i + 1, Len(seq))

\* what the one-listener scripts leave alone
ScriptFrame ==
    <<program, env, participants, currentRideStatus, statusLog, appSessionId,
      currentAllocations, currentVersion, createPc, timers, submit, twoSigners,
      evaluation>>

SingleListenerScripts == {"create_channel", "connect_wallet_and_tip", "resize_channel"}

\* the values of --resize and --allocate: <<>> when the option is not given
Amounts == {<<>>, <<-1>>, <<0>>, <<1>>}

\* the check of yargs: at least one option given, not both zero
Argvs ==
    {a \in [resize : Amounts, allocate : Amounts] :
        /\ ~(a.resize = <<>> /\ a.allocate = <<>>)
        /\ ~(a.resize = <<0>> /\ a.allocate = <<0>>)}

InitScript ==
    /\ \/ /\ program \in {"create_channel", "connect_wallet_and_tip"}
          /\ env \in {[v \in EnvVars |-> v \in set] : set \in {{"SEED_PHRASE"}, {}}}
          /\ script = NoScript
       \/ /\ program = "resize_channel"
          /\ env = [v \in EnvVars |-> v = "SEED_PHRASE"]
          /\ script \in {[NoScript EXCEPT !.argv = a, !.hasBase = b] :
                            a \in Argvs, b \in BOOLEAN}
    /\ mainPc = "start"
    /\ exitCode = -1
    /\ participants = NoParticipants
    /\ listening = {}
    /\ currentRideStatus = IDLE
    /\ statusLog = <<IDLE>>
    /\ appSessionId = "null"
    /\ currentAllocations = <<>>
    /\ currentVersion = 0
    /\ createPc = "none"
    /\ timers = {}
    /\ submit = NoCall
    /\ outbox = <<>>
    /\ twoSigners = NoLocals
    /\ handshake = NoHandshake
    /\ evaluation = NoEvaluation

(* --------------- create-channel and connect_wallet_and_tip ------------ *)

\* main of the create-channel script and of connect_wallet_and_tip: a missing
\* SEED_PHRASE makes mnemonicToAccount throw and main().catch logs the error;
\* otherwise the client connects, the auth request is sent and, with no await
\* in between, the listener is registered
ScriptConnect ==
    /\ program \in {"create_channel", "connect_wallet_and_tip"}
    /\ Running /\ mainPc = "start"
    /\ IF env["SEED_PHRASE"]
       THEN /\ outbox' = Append(outbox, ScriptMessage("auth_request", ""))
            /\ handshake' = [handshake EXCEPT ![1] = "requested"]
            /\ listening' = {"yellow"}
            /\ mainPc' = "listening"
            /\ UNCHANGED exitCode
       ELSE /\ mainPc' = "failed"
            /\ exitCode' = 0
            /\ UNCHANGED <<outbox, handshake, listening>>
    /\ UNCHANGED script
    /\ UNCHANGED ScriptFrame

\* case AuthChallenge of the three listeners (for resize_channel the listener
\* of lib/auth): the challenge is answered with an auth verify message
ScriptAuthChallenge ==
    /\ program \in SingleListenerScripts /\ Running
    /\ listening # {} /\ handshake[1] = "requested"
    /\ handshake' = [handshake EXCEPT ![1] = "challenged"]
    /\ outbox' = Append(outbox, ScriptMessage("auth_verify", ""))
    /\ UNCHANGED <<mainPc, exitCode, listening, script>>
    /\ UNCHANGED ScriptFrame

\* the server has answered the auth verify message and may repeat its answer
AuthVerifyDue ==
    /\ handshake[1] \in {"challenged", "verified"}
    /\ script.verifies < MaxVerifies

\* case AuthVerify of the create-channel script: on success the create-channel
\* message is built (await), on failure the failure is logged
CreateChannelAuthVerify(success) ==
    /\ program = "create_channel" /\ Running /\ "yellow" \in listening
    /\ AuthVerifyDue
    /\ handshake' = [handshake EXCEPT ![1] = "verified"]
    /\ script' = [script EXCEPT
                    !.verifies = @ + 1,
                    !.verified = @ \/ success,
                    !.pending = IF success
                                THEN Append(@, Suspended("send_create_channel", ""))
                                ELSE @]
    /\ UNCHANGED <<mainPc, exitCode, listening, outbox>>
    /\ UNCHANGED ScriptFrame

\* createCreateChannelMessage has resolved: the request is sent
CreateChannelSend(i) ==
    /\ program = "create_channel" /\ Running
    /\ i \in DOMAIN script.pending /\ script.pending[i].step = "send_create_channel"
    /\ outbox' = Append(outbox, ScriptMessage("create_channel", ""))
    /\ script' = [script EXCEPT !.pending = Remove(@, i), !.channel = "requested"]
    /\ UNCHANGED <<mainPc, exitCode, listening, handshake>>
    /\ UNCHANGED ScriptFrame

\* case CreateChannel: the server's response to a create-channel request
\* arrives and nitroliteClient.createChannel is called (await)
CreateChannelResponse ==
    /\ program = "create_channel" /\ Running /\ "yellow" \in listening
    /\ script.channel = "requested"
    /\ script' = [script EXCEPT
                    !.channel = "answered",
                    !.answers = @ + 1,
                    !.onchain = Append(@, "createChannel"),
                    !.pending = Append(@, Suspended("onchain", ""))]
    /\ UNCHANGED <<mainPc, exitCode, listening, outbox, handshake>>
    /\ UNCHANGED ScriptFrame

\* the on-chain call of the create-channel script or of resize_channel has
\* resolved: yellow.disconnect() is called (await); the closing client
\* delivers no further message
ScriptOnChainDone(i) ==
    /\ program \in {"create_channel", "resize_channel"} /\ Running
    /\ i \in DOMAIN script.pending /\ script.pending[i].step = "onchain"
    /\ script' = [script EXCEPT
                    !.pending = Append(Remove(@, i), Suspended("exit_0", ""))]
    /\ listening' = {}
    /\ UNCHANGED <<mainPc, exitCode, outbox, handshake>>
    /\ UNCHANGED ScriptFrame

\* case Error: connect_wallet_and_tip logs the error; the other two scripts
\* call yellow.disconnect() (await) and then process.exit(1)
ScriptError ==
    /\ program \in SingleListenerScripts /\ Running /\ "yellow" \in listening
    /\ script.errors < MaxErrors
    /\ IF program = "connect_wallet_and_tip"
       THEN /\ script' = [script EXCEPT !.errors = @ + 1]
            /\ UNCHANGED listening
       ELSE /\ script' = [script EXCEPT
                            !.errors = @ + 1,
                            !.pending = Append(@, Suspended("exit_1", ""))]
            /\ listening' = {}
    /\ UNCHANGED <<mainPc, exitCode, outbox, handshake>>
    /\ UNCHANGED ScriptFrame

\* yellow.disconnect() has resolved in a handler: process.exit with that
\* handler's code; which of two pending disconnect calls resolves first
\* is up to the client library
ScriptExit(i) ==
    /\ program \in {"create_channel", "resize_channel"} /\ Running
    /\ i \in DOMAIN script.pending
    /\ script.pending[i].step \in {"exit_0", "exit_1"}
    /\ exitCode' = IF script.pending[i].step = "exit_0" THEN 0 ELSE 1
    /\ mainPc' = "exited"
    /\ UNCHANGED <<listening, outbox, handshake, script>>
    /\ UNCHANGED ScriptFrame

\* case AuthVerify of connect_wallet_and_tip: the transfer message is built
\* (await); message.params is logged and not examined
TipAuthVerify(success) ==
    /\ program = "connect_wallet_and_tip" /\ Running /\ "yellow" \in listening
    /\ AuthVerifyDue
    /\ handshake' = [handshake EXCEPT ![1] = "verified"]
    /\ script' = [script EXCEPT
                    !.verifies = @ + 1,
                    !.verified = @ \/ success,
                    !.pending = Append(@, Suspended("send_transfer", ""))]
    /\ UNCHANGED <<mainPc, exitCode, listening, outbox>>
    /\ UNCHANGED ScriptFrame

\* createTransferMessage has resolved: the transfer is sent
TipSendTransfer(i) ==
    /\ program = "connect_wallet_and_tip" /\ Running
    /\ i \in DOMAIN script.pending /\ script.pending[i].step = "send_transfer"
    /\ outbox' = Append(outbox, ScriptMessage("transfer", ""))
    /\ script' = [script EXCEPT !.pending = Remove(@, i)]
    /\ UNCHANGED <<mainPc, exitCode, listening, handshake>>
    /\ UNCHANGED ScriptFrame

(* ---------------------------- resize_channel -------------------------- *)

\* isAllocating: allocateAmount !== undefined && allocateAmount > 0
isAllocating(argv) == argv.allocate # <<>> /\ argv.allocate[1] > 0

\* the funds going to the broker whatever the amounts are
fundsDestination_AlwaysBroker(argv, brokerAddress) == brokerAddress

\* fundsDestination: the broker when allocating, the wallet otherwise
fundsDestination(argv, brokerAddress) ==
    IF isAllocating(argv) THEN brokerAddress ELSE AddressOf("SEED_PHRASE")

\* main up to the await inside authenticate: the client connects, authenticate
\* registers its AuthChallenge listener and sends the auth request
ResizeAuthenticate ==
    /\ program = "resize_channel" /\ Running /\ mainPc = "start"
    /\ outbox' = Append(outbox, ScriptMessage("auth_request", ""))
    /\ handshake' = [handshake EXCEPT ![1] = "requested"]
    /\ listening' = {"authenticate"}
    /\ mainPc' = "authenticating"
    /\ UNCHANGED <<exitCode, script>>
    /\ UNCHANGED ScriptFrame

\* authenticate has returned: main registers its own listener
ResizeListen ==
    /\ program = "resize_channel" /\ Running /\ mainPc = "authenticating"
    /\ listening' = listening \cup {"yellow"}
    /\ mainPc' = "listening"
    /\ UNCHANGED <<exitCode, outbox, handshake, script>>
    /\ UNCHANGED ScriptFrame

\* case AuthVerify of resize_channel: the get-config message is built (await);
\* an AuthVerify arriving before main's listener is registered is handled by
\* no one
ResizeAuthVerify(success) ==
    /\ program = "resize_channel" /\ Running /\ listening # {}
    /\ AuthVerifyDue
    /\ handshake' = [handshake EXCEPT ![1] = "verified"]
    /\ script' = [script EXCEPT
                    !.verifies = @ + 1,
                    !.verified = @ \/ ("yellow" \in listening /\ success),
                    !.pending = IF "yellow" \in listening
                                THEN Append(@, Suspended("send_get_config", ""))
                                ELSE @]
    /\ UNCHANGED <<mainPc, exitCode, listening, outbox>>
    /\ UNCHANGED ScriptFrame

\* createGetConfigMessage has resolved: the request is sent
ResizeSendGetConfig(i) ==
    /\ program = "resize_channel" /\ Running
    /\ i \in DOMAIN script.pending /\ script.pending[i].step = "send_get_config"
    /\ outbox' = Append(outbox, ScriptMessage("get_config", ""))
    /\ script' = [script EXCEPT !.pending = Remove(@, i), !.config = "requested"]
    /\ UNCHANGED <<mainPc, exitCode, listening, handshake>>
    /\ UNCHANGED ScriptFrame

\* case GetConfig: the server's response to a get-config request; without a
\* Base entry the script disconnects (await) and exits with code 1, otherwise
\* the resize message is built (await) for the funds destination
ResizeGetConfig ==
    /\ program = "resize_channel" /\ Running /\ "yellow" \in listening
    /\ script.config = "requested"
    /\ IF script.hasBase
       THEN /\ script' = [script EXCEPT
                            !.config = "answered",
                            !.brokerAddress = "0xBroker",
                            !.baseNetwork = TRUE,
                            !.pending = Append(@, Suspended("send_resize",
                                            fundsDestination(script.argv, "0xBroker")))]
            /\ UNCHANGED listening
       ELSE /\ script' = [script EXCEPT
                            !.config = "answered",
                            !.brokerAddress = "0xBroker",
                            !.pending = Append(@, Suspended("exit_1", ""))]
            /\ listening' = {}
    /\ UNCHANGED <<mainPc, exitCode, outbox, handshake>>
    /\ UNCHANGED ScriptFrame

\* createResizeChannelMessage has resolved: the resize request is sent
ResizeSendRequest(i) ==
    /\ program = "resize_channel" /\ Running
    /\ i \in DOMAIN script.pending /\ script.pending[i].step = "send_resize"
    /\ outbox' = Append(outbox, ScriptMessage("resize_channel",
                                              script.pending[i].funds_destination))
    /\ script' = [script EXCEPT !.pending = Remove(@, i), !.resize = "requested"]
    /\ UNCHANGED <<mainPc, exitCode, listening, handshake>>
    /\ UNCHANGED ScriptFrame

\* case ResizeChannel: the server's response to a resize request; the
\* previous state is fetched with getChannelData (await)
ResizeChannelResponse ==
    /\ program = "resize_channel" /\ Running /\ "yellow" \in listening
    /\ script.resize = "requested"
    /\ script' = [script EXCEPT
                    !.resize = "answered",
                    !.answers = @ + 1,
                    !.pending = Append(@, Suspended("resize_onchain", ""))]
    /\ UNCHANGED <<mainPc, exitCode, listening, outbox, handshake>>
    /\ UNCHANGED ScriptFrame

\* getChannelData has resolved: nitroliteClient.resizeChannel is called (await)
ResizeOnChain(i) ==
    /\ program = "resize_channel" /\ Running
    /\ i \in DOMAIN script.pending /\ script.pending[i].step = "resize_onchain"
    /\ script' = [script EXCEPT
                    !.onchain = Append(@, "resizeChannel"),
                    !.pending = Append(Remove(@, i), Suspended("onchain", ""))]
    /\ UNCHANGED <<mainPc, exitCode, listening, outbox, handshake>>
    /\ UNCHANGED ScriptFrame

(* ------------------------------- Next --------------------------------- *)

\* onChannelUpdate and the Error case use their participant for logging only:
\* one listening participant stands for whichever client received the message
Receivers == IF listening = {} THEN {} ELSE {CHOOSE p \in listening : TRUE}

Init == InitRideshare \/ InitTwoSigners \/ InitConnectAuth \/ InitScript

Next ==
    \/ MainInitialize
    \/ \E r \in Roles : authenticateParticipant(r)
    \/ \E p \in Roles, success \in BOOLEAN : HandleAuthVerify(p, success)
    \/ \E p \in Receivers, info \in ChannelInfos : onChannelUpdate(p, info)
    \/ \E p \in Receivers, i \in DOMAIN outbox : HandleError(p, i)
    \/ CreateSessionSend
    \/ CreateSessionSent
    \/ TimerSessionConfirm
    \/ simulatePickup
    \/ TimerRideInProgress
    \/ simulateRideCompletion
    \/ updateAllocationsForPayment
    \/ \E rejected \in SUBSET Roles : cleanup(rejected)
    \/ SubmitBuilt
    \/ SubmitSigned
    \/ SubmitSent
    \/ TwoSignersConnect
    \/ \E n \in 1..2 : TwoSignersAuthenticate(n)
    \/ \E n \in 1..2 : TwoSignersAuthChallenge(n)
    \/ \E n \in 1..2 : TwoSignersAuthVerify(n)
    \/ TwoSignersCreateSession
    \/ \E response \in SessionResponses : TwoSignersSessionResponse(response)
    \/ TwoSignersSubmitBuilt
    \/ TwoSignersCloseBuilt
    \/ TwoSignersCloseSigned
    \/ TwoSignersCloseResponse
    \/ ConnectAuthSendRequest
    \/ ConnectAuthListen
    \/ ConnectAuthBlockNumber
    \/ ConnectAuthChallenge
    \/ ConnectAuthVerify
    \/ ScriptConnect
    \/ ScriptAuthChallenge
    \/ \E success \in BOOLEAN : CreateChannelAuthVerify(success)
    \/ \E i \in DOMAIN script.pending : CreateChannelSend(i)
    \/ CreateChannelResponse
    \/ \E i \in DOMAIN script.pending : ScriptOnChainDone(i)
    \/ ScriptError
    \/ \E i \in DOMAIN script.pending : ScriptExit(i)
    \/ \E success \in BOOLEAN : TipAuthVerify(success)
    \/ \E i \in DOMAIN script.pending : TipSendTransfer(i)
    \/ ResizeAuthenticate
    \/ ResizeListen
    \/ \E success \in BOOLEAN : ResizeAuthVerify(success)
    \/ \E i \in DOMAIN script.pending : ResizeSendGetConfig(i)
    \/ ResizeGetConfig
    \/ \E i \in DOMAIN script.pending : ResizeSendRequest(i)
    \/ ResizeChannelResponse
    \/ \E i \in DOMAIN script.pending : ResizeOnChain(i)

Spec == Init /\ [][Next]_vars

\* the steps of rideshare_demo that wait for nothing from the backend: the
\* resumption of an await whose call returns, and a setTimeout callback
\* of the running process
RideshareSteps ==
    \/ CreateSessionSend
    \/ CreateSessionSent
    \/ TimerSessionConfirm
    \/ simulatePickup
    \/ TimerRideInProgress
    \/ simulateRideCompletion
    \/ updateAllocationsForPayment
    \/ \E rejected \in SUBSET Roles : cleanup(rejected)
    \/ SubmitBuilt
    \/ SubmitSigned
    \/ SubmitSent

\* a run of rideshare_demo: main, the messages of the backend, and the steps
NextRideshare ==
    \/ MainInitialize
    \/ \E r \in Roles : authenticateParticipant(r)
    \/ \E p \in Roles, success \in BOOLEAN : HandleAuthVerify(p, success)
    \/ \E p \in Receivers, info \in ChannelInfos : onChannelUpdate(p, info)
    \/ \E p \in Receivers, i \in DOMAIN outbox : HandleError(p, i)
    \/ RideshareSteps

\* the event loop runs every callback that is due: no resumption and no
\* timer waits forever while messages from the backend keep arriving
SpecProgress == InitRideshare /\ [][NextRideshare]_vars /\ WF_vars(RideshareSteps)

(* --------------- rideshare_demo started in any environment ------------ *)

\* every combination of set and unset seed-phrase variables
AllEnvironments == {[v \in EnvVars |-> v \in set] : set \in SUBSET EnvVars}

InitAnyEnvironment ==
    /\ program = "rideshare_demo"
    /\ env \in AllEnvironments
    /\ mainPc = "start"
    /\ exitCode = -1
    /\ participants = NoParticipants
    /\ listening = {}
    /\ currentRideStatus = IDLE
    /\ statusLog = <<IDLE>>
    /\ appSessionId = "null"
    /\ currentAllocations = <<>>
    /\ currentVersion = 0
    /\ createPc = "none"
    /\ timers = {}
    /\ submit = NoCall
    /\ outbox = <<>>
    /\ twoSigners = NoLocals
    /\ handshake = NoHandshake
    /\ evaluation = NoEvaluation
    /\ script = NoScript

\* main up to the start of the ride flow
NextStartup ==
    \/ MainInitialize
    \/ \E r \in Roles : authenticateParticipant(r)
    \/ \E p \in Roles, success \in BOOLEAN : HandleAuthVerify(p, success)

SpecStartup == InitAnyEnvironment /\ [][NextStartup]_vars

(* ----------------- the quorum evaluator as a pure function ------------ *)

\* every role with its own wallet
DistinctParticipants == [r \in Roles |-> initializeParticipant([v \in EnvVars |-> TRUE], r)]

RideshareDefinition == AppDefinition(DistinctParticipants)

Identities == {"0xRider", "0xDriver", "0xApp", "0xStranger"}

\* the definitions of the two scripts and three-party definitions with
\* other weights and thresholds, thresholds that do not divide evenly included
Definitions ==
    {RideshareDefinition,
     TwoSignersDefinition(AddressOf("SEED_PHRASE"), AddressOf("WALLET_2_SEED_PHRASE"))}
    \cup {[RideshareDefinition EXCEPT !.weights = <<w[1], w[2], w[3]>>, !.quorum = q] :
             w \in {x \in [1..3 -> {0, 20, 40, 50}] : x[1] + x[2] + x[3] > 0},
             q \in {0, 50, 60, 67, 100}}

\* signer lists up to MaxSigners long, repeated signers included
SignerLists == UNION {[1..n -> Identities] : n \in 0..MaxSigners}

InitQuorum ==
    /\ program = "quorum_evaluator"
    /\ env = [v \in EnvVars |-> FALSE]
    /\ mainPc = "start"
    /\ exitCode = -1
    /\ participants = NoParticipants
    /\ listening = {}
    /\ currentRideStatus = IDLE
    /\ statusLog = <<IDLE>>
    /\ appSessionId = "null"
    /\ currentAllocations = <<>>
    /\ currentVersion = 0
    /\ createPc = "none"
    /\ timers = {}
    /\ submit = NoCall
    /\ outbox = <<>>
    /\ twoSigners = NoLocals
    /\ handshake = NoHandshake
    /\ evaluation \in {[NoEvaluation EXCEPT !.definition = d] : d \in Definitions}
    /\ script = NoScript

Evaluate(signerIds) ==
    /\ program = "quorum_evaluator"
    /\ evaluation.result = NoResult
    /\ evaluation' = [evaluation EXCEPT
                        !.signerIds = signerIds,
                        !.result = evaluate(evaluation.definition, signerIds)]
    /\ UNCHANGED <<program, script, env, handshake, mainPc, exitCode, outbox, twoSigners>>
    /\ UNCHANGED RideshareVars

NextQuorum == \E signerIds \in SignerLists : Evaluate(signerIds)

SpecQuorum == InitQuorum /\ [][NextQuorum]_vars

(* ===================== properties of the scripts ===================== *)

Assets(allocations) == {allocations[k].asset : k \in DOMAIN allocations}

\* the two vectors have the same total for every asset of either
SameTotals(a, b) ==
    \A asset \in Assets(a) \cup Assets(b) : AssetSum(a, asset, 0) = AssetSum(b, asset, 0)

\* the state updates handed to sendMessage so far, in order
StateUpdates == SelectSeq(outbox, LAMBDA m : m.method = "submit_app_state")

\* the session keys that signed a message
SignatureKeys(m) ==
    {m.sig[k] : k \in DOMAIN m.sig}
        \cup {m.additional_signatures[k].signature : k \in DOMAIN m.additional_signatures}

\* weights: [RIDER_WEIGHT, DRIVER_WEIGHT, APP_WEIGHT], by position in the definition
WeightOfRole(role) ==
    LET definition == AppDefinition([r \in Roles |-> [address |-> r]])
    IN  definition.weights[CHOOSE k \in DOMAIN RoleOrder : RoleOrder[k] = role]

RECURSIVE SumOverRoles(_)
SumOverRoles(roleSet) ==
    IF roleSet = {} THEN 0
    ELSE LET r == CHOOSE x \in roleSet : TRUE
         IN  WeightOfRole(r) + SumOverRoles(roleSet \ {r})

\* C1: conservation in rideshare_demo: the vector of every operate update
\* (while submitAppState is suspended, and as sent) has the per-asset totals of
\* currentAllocations, and once set the usdc amounts of currentAllocations sum
\* to RIDE_FARE
C1_Conservation ==
    program = "rideshare_demo" =>
        /\ currentAllocations # <<>> =>
               AssetSum(currentAllocations, "usdc", 0) = AmountValue(RIDE_FARE, 0)
        /\ submit.pc # "none" => SameTotals(submit.allocations, currentAllocations)
        /\ \A k \in DOMAIN StateUpdates :
               /\ StateUpdates[k].intent = "operate"
               /\ SameTotals(StateUpdates[k].allocations, currentAllocations)

\* the payment update has been sent and the driver holds the fare
C1_Witness ==
    /\ currentRideStatus = ALLOCATIONS_UPDATED
    /\ Len(StateUpdates) = 3
    /\ currentAllocations[2].amount = RIDE_FARE
    /\ StateUpdates[3].allocations = currentAllocations

\* C3: every submitAppState call of rideshare_demo has signers whose configured
\* weights sum to at least QUORUM_THRESHOLD, and every state update sent
\* carries the signatures of at least two participants reaching that weight
C3_SubmittedWithQuorum ==
    /\ submit.pc # "none" =>
           SumOverRoles({submit.signers[k] : k \in DOMAIN submit.signers}) >= QUORUM_THRESHOLD
    /\ \A k \in DOMAIN StateUpdates :
           /\ SumOverRoles(SignatureKeys(StateUpdates[k])) >= QUORUM_THRESHOLD
           /\ Cardinality(SignatureKeys(StateUpdates[k])) >= 2

\* the pickup update has been sent with exactly the quorum weight
C3_Witness ==
    /\ Len(StateUpdates) >= 1
    /\ SignatureKeys(StateUpdates[1]) = {"driver", "app"}
    /\ SumOverRoles(SignatureKeys(StateUpdates[1])) = QUORUM_THRESHOLD

\* C4: the k-th state update handed to submitAppState carries version k
C4_VersionSequence ==
    /\ \A k \in DOMAIN StateUpdates : StateUpdates[k].version = k
    /\ submit.pc \in {"building", "signing"} => submit.version = Len(StateUpdates) + 1

\* C5: currentVersion never decreases
C5_VersionMonotone == [][currentVersion' >= currentVersion]_vars

\* C6: currentVersion and an already set currentAllocations change only in the
\* step that handles a ChannelsUpdate message of the backend
C6_ChangeOnlyOnAcknowledgment ==
    [][(\/ currentVersion' # currentVersion
        \/ (currentAllocations # <<>> /\ currentAllocations' # currentAllocations))
       => \E p \in Roles, info \in ChannelInfos : onChannelUpdate(p, info)]_vars

\* the ride status in which the k-th state update is built
StatusBeforeUpdate(k) ==
    CASE k = 1 -> RIDE_BOOKED
      [] k = 2 -> RIDE_IN_PROGRESS
      [] k = 3 -> RIDE_COMPLETED

\* C7: when the latest state update was answered with Error and its
\* submitAppState call has returned, the session is as it was before the
\* update: the version below the update's, the initial allocations, and the
\* ride status in which the update was built
C7_RejectedLeavesSessionUnchanged ==
    LET n == Len(StateUpdates)
    IN  (n > 0 /\ StateUpdates[n].answer = "error" /\ submit.pc = "none") =>
            /\ currentVersion = StateUpdates[n].version - 1
            /\ currentAllocations = InitialAllocations(participants)
            /\ currentRideStatus = StatusBeforeUpdate(n)

\* C8: the session version only ever changes to currentVersion + 1: a
\* transition with any other version never changes it
C8_OnlyNextVersionAccepted ==
    [][currentVersion' # currentVersion => currentVersion' = currentVersion + 1]_vars

AllVectors ==
    {currentAllocations, submit.allocations, twoSigners.allocations,
     twoSigners.finalAllocations, twoSigners.submitAppStateMessage.allocations,
     twoSigners.closeSessionMessageJson.allocations}
        \cup {outbox[k].allocations : k \in DOMAIN outbox}

PairwiseDistinct(seq) == \A j, k \in DOMAIN seq : j # k => seq[j] # seq[k]

\* the create-session messages handed to sendMessage so far
CreateSessionMessages == SelectSeq(outbox, LAMBDA m : m.method = "create_app_session")

\* C11: the definition of every create-session message of rideshare_demo
\* lists participants with pairwise distinct identities, also when the three
\* roles fall back to SEED_PHRASE
C11_DistinctParticipants ==
    program = "rideshare_demo" =>
        \A k \in DOMAIN CreateSessionMessages :
            PairwiseDistinct(CreateSessionMessages[k].definition.participants)

\* C12: rideshare_demo leaves CREATING_SESSION only in the step that handles a
\* ChannelsUpdate message of the backend, and only when the create-session
\* request has been sent before
C12_ActivationOnlyOnAcknowledgment ==
    [][(currentRideStatus = CREATING_SESSION /\ currentRideStatus' # CREATING_SESSION)
       => /\ \E p \in Roles, info \in ChannelInfos : onChannelUpdate(p, info)
          /\ Len(CreateSessionMessages) > 0]_vars

\* C13: every additional signer of submitAppState whose signature has been
\* pushed has validated the candidate against the ledger rules before
C13_ValidatedBeforeSigning ==
    \A k \in DOMAIN submit.additional :
        submit.additional[k].signature \in submit.validated

StateFlow ==
    <<IDLE, CREATING_SESSION, SESSION_CREATED, RIDE_BOOKED, PICKUP_CONFIRMED,
      RIDE_IN_PROGRESS, RIDE_COMPLETED, ALLOCATIONS_UPDATED>>

DriverAmount(allocations) == AmountValue(allocations[2].amount, 0)

\* ride_completed has been reached after the pickup and the completion update
\* were handed to sendMessage
CompletedAfterBothUpdates ==
    /\ \E k \in DOMAIN statusLog : statusLog[k] = RIDE_COMPLETED
    /\ Len(StateUpdates) >= 2
    /\ SignatureKeys(StateUpdates[1]) = {PickupSigners[k] : k \in DOMAIN PickupSigners}
    /\ SignatureKeys(StateUpdates[2]) = {CompletionSigners[k] : k \in DOMAIN CompletionSigners}
    /\ DriverAmount(StateUpdates[1].allocations) = 0
    /\ DriverAmount(StateUpdates[2].allocations) = 0

\* C16: in rideshare_demo the payment update is built and sent, and the
\* driver's amount in currentAllocations is non-zero, only after ride_completed
\* was reached with the pickup and completion updates sent
C16_PaymentOnlyAfterCompletion ==
    program = "rideshare_demo" =>
        /\ submit.caller = "updateAllocationsForPayment" => CompletedAfterBothUpdates
        /\ \A k \in DOMAIN StateUpdates :
               DriverAmount(StateUpdates[k].allocations) # 0 =>
                   (k = 3 /\ CompletedAfterBothUpdates)
        /\ (currentAllocations # <<>> /\ DriverAmount(currentAllocations) # 0) =>
               (CompletedAfterBothUpdates /\ Len(StateUpdates) = 3)

\* the payment update is sent and the driver's amount has become the fare
C16_Witness ==
    /\ statusLog[Len(statusLog)] = ALLOCATIONS_UPDATED
    /\ DriverAmount(currentAllocations) = AmountValue(RIDE_FARE, 0)
    /\ DriverAmount(StateUpdates[3].allocations) = AmountValue(RIDE_FARE, 0)

\* main has returned and the flow waits for the AuthVerify messages
AwaitingAuthVerify ==
    /\ program = "rideshare_demo" /\ Running
    /\ mainPc = "done"
    /\ ~AllAuthenticated(participants)

\* the create-session message is sent and its confirmation is waited for
AwaitingSessionConfirmation ==
    /\ program = "rideshare_demo" /\ Running
    /\ currentRideStatus = CREATING_SESSION
    /\ createPc = "done"

\* C17: whenever rideshare_demo waits for a message of the backend (the
\* AuthVerify messages, the confirmation of the session), a timeout is pending
\* that ends the wait
C17_EveryWaitHasTimeout ==
    (AwaitingAuthVerify \/ AwaitingSessionConfirmation) => timers # {}

\* the close requests handed to sendMessage so far
CloseMessages == SelectSeq(outbox, LAMBDA m : m.method = "close_app_session")

\* C18: the close request app_session_two_signers sends carries two
\* signatures, the first participant's and then the second participant's, and
\* the second one was made over the req of the message sent
C18_CloseCarriesBothSignatures ==
    \A k \in DOMAIN CloseMessages :
        /\ CloseMessages[k].sig = <<WalletKey(1), WalletKey(2)>>
        /\ twoSigners.signature2 = [key |-> WalletKey(2), req |-> Req(CloseMessages[k])]
        /\ Req(CloseMessages[k]).allocations = twoSigners.finalAllocations
        /\ Req(CloseMessages[k]).app_session_id = twoSigners.sessionResponse

\* the close request is sent for the session the backend has created
C18_Witness ==
    /\ program = "app_session_two_signers"
    /\ mainPc = "close_sent"
    /\ Len(CloseMessages) = 1
    /\ Len(CloseMessages[1].sig) = 2
    /\ CloseMessages[1].app_session_id = "0xSession"

\* C19: when app_session_two_signers sends its close request, the state
\* update with finalAllocations, signed by both participants, has been sent
\* before it and after the create-session message
C19_StateUpdateSubmittedBeforeClose ==
    program = "app_session_two_signers" =>
        \A k \in DOMAIN outbox :
            outbox[k].method = "close_app_session" =>
                \E i, j \in 1..(k - 1) :
                    /\ i < j
                    /\ outbox[i].method = "create_app_session"
                    /\ outbox[j].method = "submit_app_state"
                    /\ outbox[j].allocations = twoSigners.finalAllocations
                    /\ {WalletKey(1), WalletKey(2)} \subseteq SignatureKeys(outbox[j])

\* C20: in app_session_two_signers an authenticateWallet call has returned
\* only when the handshake of its wallet is verified, and the create-session
\* message is sent only when both handshakes are verified
C20_CreateAfterAuthentication ==
    program = "app_session_two_signers" =>
        /\ mainPc = "authenticate_2" => handshake[1] = "verified"
        /\ Len(CreateSessionMessages) > 0 =>
               \A n \in DOMAIN handshake : handshake[n] = "verified"

\* C21: once the payment is released and rideshare_demo has finished, the ride
\* status is back at IDLE
C21_IdleAfterFundsReleased ==
    (/\ program = "rideshare_demo"
     /\ ~Running
     /\ \E k \in DOMAIN statusLog : statusLog[k] = ALLOCATIONS_UPDATED)
        => currentRideStatus = IDLE

\* C22: in connect_auth_get_balances the AuthChallenge never arrives while no
\* listener is registered: every challenge is answered with auth verify
C22_EveryChallengeAnswered ==
    program = "connect_auth_get_balances" =>
        /\ handshake[1] # "lost"
        /\ handshake[1] \in {"challenged", "verified"} =>
               \E k \in DOMAIN outbox : outbox[k].method = "auth_verify"

\* the signers of the k-th submitAppState call of a run
SignersOfUpdate(k) ==
    CASE k = 1 -> PickupSigners
      [] k = 2 -> CompletionSigners
      [] k = 3 -> PaymentSigners

\* one additional signature for each of the n signers after the first, in
\* list order, labelled with the signer's address
AdditionalOf(signers, n) ==
    [j \in 1..n |-> [participant |-> participants[signers[j + 1]].address,
                     signature |-> signers[j + 1]]]

\* C23: in submitAppState the base message is signed by signers[0] and sent
\* through signers[0]'s client, and the additional signatures are one per
\* remaining signer, in list order, each with that signer's address
C23_FirstSignerInitiates ==
    /\ submit.pc = "signing" =>
           submit.additional = AdditionalOf(submit.signers, submit.i - 2)
    /\ submit.pc = "sending" =>
           submit.additional = AdditionalOf(submit.signers, Len(submit.signers) - 1)
    /\ \A k \in DOMAIN StateUpdates :
           LET signers == SignersOfUpdate(k)
           IN  /\ StateUpdates[k].sig = <<signers[1]>>
               /\ StateUpdates[k].via = signers[1]
               /\ StateUpdates[k].additional_signatures
                      = AdditionalOf(signers, Len(signers) - 1)

\* the completion update is sent: signed by the rider, with the signatures of
\* driver and app added
C23_Witness ==
    /\ Len(StateUpdates) >= 2
    /\ StateUpdates[2].sig = <<"rider">>
    /\ StateUpdates[2].via = "rider"
    /\ Len(StateUpdates[2].additional_signatures) = 2
    /\ StateUpdates[2].additional_signatures[2].signature = "app"

\* C24: the vector of a pickup or completion call is currentAllocations, and
\* so is the vector sent for it; currentAllocations, once set, changes only
\* when the submitAppState call of updateAllocationsForPayment has returned,
\* and then the app's entry stays as it was, with amount 0
C24_OnlyPaymentChangesAllocations ==
    [][/\ submit'.caller \in {"simulatePickup", "simulateRideCompletion"} =>
              submit'.allocations = currentAllocations'
       /\ (/\ Len(outbox') > Len(outbox)
           /\ outbox'[Len(outbox')].method = "submit_app_state"
           /\ submit.caller \in {"simulatePickup", "simulateRideCompletion"}) =>
              outbox'[Len(outbox')].allocations = currentAllocations
       /\ (currentAllocations # <<>> /\ currentAllocations' # currentAllocations) =>
              /\ submit.caller = "updateAllocationsForPayment"
              /\ submit.pc = "sending"
              /\ currentAllocations'[3] = currentAllocations[3]
              /\ AmountValue(currentAllocations'[3].amount, 0) = 0
              /\ \A k \in 1..2 :
                    /\ currentAllocations'[k].participant = currentAllocations[k].participant
                    /\ currentAllocations'[k].asset = currentAllocations[k].asset]_vars

\* the payment has moved the fare from the rider's entry to the driver's and
\* the two updates before it carried the initial vector
C24_Witness ==
    /\ Len(StateUpdates) = 3
    /\ StateUpdates[1].allocations = InitialAllocations(participants)
    /\ StateUpdates[2].allocations = InitialAllocations(participants)
    /\ currentAllocations = NewAllocations(participants)
    /\ currentAllocations # InitialAllocations(participants)

\* the vectors rideshare_demo has created or submitted
RideshareVectors ==
    {v \in {currentAllocations, submit.allocations} : v # <<>>}
        \cup {outbox[k].allocations : k \in DOMAIN outbox}

\* C25: every allocation vector of rideshare_demo has one entry for each
\* participant of the session definition, in definition order, all for asset
\* 'usdc', and no participant has two entries
C25_OneEntryPerParticipant ==
    program = "rideshare_demo" =>
        \A vector \in RideshareVectors :
            LET definition == AppDefinition(participants)
            IN  /\ Len(vector) = Len(definition.participants)
                /\ \A k \in DOMAIN vector :
                      /\ vector[k].participant = definition.participants[k]
                      /\ vector[k].asset = "usdc"
                /\ \A j, k \in DOMAIN vector :
                      (j # k /\ vector[j].asset = vector[k].asset) =>
                          vector[j].participant # vector[k].participant

\* how often x occurs in the sequence
Occurrences(seq, x) == Cardinality({k \in DOMAIN seq : seq[k] = x})

\* C26: createApplicationSession runs at most once in a run of rideshare_demo
\* (the status becomes CREATING_SESSION once, one create-session message is
\* sent), and only when rider, driver and app are all marked authenticated
C26_FlowStartsOnceWhenAllAuthenticated ==
    program = "rideshare_demo" =>
        /\ Occurrences(statusLog, CREATING_SESSION) <= 1
        /\ Len(CreateSessionMessages) <= 1
        /\ (createPc # "none" \/ currentRideStatus # IDLE) =>
               /\ DOMAIN participants = Roles
               /\ AllAuthenticated(participants)

\* the flow has started and its create-session message is sent
C26_Witness ==
    /\ program = "rideshare_demo"
    /\ createPc = "done"
    /\ Occurrences(statusLog, CREATING_SESSION) = 1
    /\ Len(CreateSessionMessages) = 1
    /\ AllAuthenticated(participants)

\* the timers whose callback calls submitAppState
SubmitTimers == {"pickup", "completion", "payment"}

\* C27: submitAppState is never called while an earlier call is in progress,
\* and no two state updates of a run are sent with the same version
C27_SingleWriter ==
    program = "rideshare_demo" =>
        /\ timers \cap SubmitTimers # {} => submit.pc = "none"
        /\ \A j, k \in DOMAIN StateUpdates :
               j # k => StateUpdates[j].version # StateUpdates[k].version

\* the state updates sent with the signatures of exactly these signers
UpdatesSignedBy(signers) ==
    SelectSeq(StateUpdates,
              LAMBDA m : SignatureKeys(m) = {signers[k] : k \in DOMAIN signers})

\* C28: rideshare_demo sends the create-session message and each of the
\* pickup, completion and payment updates at most once in a run, also when
\* the backend has answered a message with Error
C28_NoRetry ==
    program = "rideshare_demo" =>
        /\ Len(CreateSessionMessages) <= 1
        /\ Len(UpdatesSignedBy(PickupSigners)) <= 1
        /\ Len(UpdatesSignedBy(CompletionSigners)) <= 1
        /\ Len(UpdatesSignedBy(PaymentSigners)) <= 1
        /\ Len(outbox) <= 4

\* the pickup update was answered with Error and the demo ran on to the end,
\* sending four messages in all
C28_Witness ==
    /\ program = "rideshare_demo"
    /\ currentRideStatus = ALLOCATIONS_UPDATED
    /\ Len(outbox) = 4
    /\ \E k \in DOMAIN outbox :
          /\ outbox[k].answer = "error"
          /\ outbox[k].method = "submit_app_state"
          /\ SignatureKeys(outbox[k]) = {"driver", "app"}

\* C29: in rideshare_demo every state update in the order of sending comes
\* after the create-session message
C29_CreateSentBeforeUpdates ==
    program = "rideshare_demo" =>
        \A k \in DOMAIN outbox :
            outbox[k].method = "submit_app_state" =>
                \E j \in 1..(k - 1) : outbox[j].method = "create_app_session"

\* C30: whenever a submitAppState call of rideshare_demo is in progress or
\* has sent its update, the app_session_id it was given is a recorded session
\* identifier, not null
C30_SessionIdRecorded ==
    program = "rideshare_demo" =>
        /\ submit.pc # "none" => submit.app_session_id # "null"
        /\ \A k \in DOMAIN StateUpdates : StateUpdates[k].app_session_id # "null"

\* C31: an AuthVerify message reporting failure neither marks its participant
\* authenticated nor starts the ride flow
C31_FailedVerifyIgnored ==
    [][\A p \in Roles :
          HandleAuthVerify(p, FALSE) =>
              /\ participants'[p].authenticated = participants[p].authenticated
              /\ currentRideStatus' = currentRideStatus]_vars

\* the allocations after the payment: rider 0, driver RIDE_FARE, app 0
FareWithDriver ==
    /\ Len(currentAllocations) = 3
    /\ currentAllocations[1].amount = <<"0">>
    /\ currentAllocations[2].amount = RIDE_FARE
    /\ currentAllocations[3].amount = <<"0">>

\* C32: once all three participants of rideshare_demo are authenticated, the
\* run eventually has reached allocations_updated with the fare allocated to
\* the driver and cleanup has exited, with or without any ChannelsUpdate
C32_Progress ==
    (program = "rideshare_demo" /\ participants # NoParticipants
        /\ AllAuthenticated(participants))
    ~> (/\ exitCode = 0
        /\ currentRideStatus = ALLOCATIONS_UPDATED
        /\ FareWithDriver)

\* a completed run in which no ChannelsUpdate supplied a session identifier
C32_Witness ==
    /\ program = "rideshare_demo" /\ exitCode = 0
    /\ currentRideStatus = ALLOCATIONS_UPDATED
    /\ FareWithDriver
    /\ appSessionId = "null"

\* the auth verify messages app_session_two_signers has sent
VerifiesSent == SelectSeq(outbox, LAMBDA m : m.method = "auth_verify")

\* the handshakes whose challenge has been received
Challenged == {n \in DOMAIN handshake : handshake[n] \in {"challenged", "verified"}}

\* C33: in app_session_two_signers every challenge received has been answered
\* by exactly one auth verify message, made by the authenticate call whose
\* request the challenge answers
C33_OneVerifyPerChallenge ==
    program = "app_session_two_signers" =>
        /\ Len(VerifiesSent) = Cardinality(Challenged)
        /\ \A n \in Challenged :
              Cardinality({k \in DOMAIN VerifiesSent :
                              VerifiesSent[k].sig = <<WalletKey(n)>>}) = 1

\* the requests of the given method that a one-listener script has sent
SentByScript(method) == {k \in DOMAIN outbox : outbox[k].method = method}

\* the create-channel request is sent only after a successful AuthVerify
CreateChannelAfterVerify ==
    SentByScript("create_channel") # {} => script.verified

\* the on-chain call is made only after the server's CreateChannel response
OnChainAfterResponse ==
    Len(script.onchain) <= script.answers

\* a run in which an Error message was handled does not end with code 0
ErrorExitsWithOne ==
    script.errors > 0 => exitCode \in {-1, 1}

\* C34: in the create-channel script the create-channel request follows a
\* successful AuthVerify, the on-chain createChannel call follows the server's
\* CreateChannel response, and an Error message makes the run end with exit
\* code 1, its handler making no on-chain call
C34_CreateChannelOrder ==
    program = "create_channel" =>
        /\ CreateChannelAfterVerify
        /\ OnChainAfterResponse
        /\ ErrorExitsWithOne

\* C35: connect_wallet_and_tip sends at most one transfer message in a run,
\* and none before an AuthVerify message reporting success was handled
C35_OneTransferAfterAuthentication ==
    program = "connect_wallet_and_tip" =>
        /\ Cardinality(SentByScript("transfer")) <= 1
        /\ SentByScript("transfer") # {} => script.verified

\* the resize requests resize_channel has sent
ResizeRequests == SelectSeq(outbox, LAMBDA m : m.method = "resize_channel")

\* C36: in resize_channel the get-config request follows an AuthVerify, the
\* resize request follows a config response with the Base network entry,
\* the on-chain resize follows a ResizeChannel response to a resize request;
\* without the Base entry no resize request is sent and the run ends with
\* code 1 if it ends; the funds destination of every resize request is the
\* broker address exactly when --allocate is given and positive, the wallet
\* address otherwise
C36_ResizeOrder ==
    program = "resize_channel" =>
        /\ SentByScript("get_config") # {} => script.verifies > 0
        /\ ResizeRequests # <<>> => script.baseNetwork /\ SentByScript("get_config") # {}
        /\ Len(script.onchain) <= script.answers
        /\ script.answers <= Len(ResizeRequests)
        /\ ~script.hasBase => ResizeRequests = <<>> /\ exitCode \in {-1, 1}
        /\ \A k \in DOMAIN ResizeRequests :
              ResizeRequests[k].funds_destination =
                  IF script.argv.allocate # <<>> /\ script.argv.allocate[1] > 0
                  THEN "0xBroker"
                  ELSE AddressOf("SEED_PHRASE")

\* the on-chain resize was made for a request whose funds go to the broker
C36_Witness ==
    /\ program = "resize_channel"
    /\ script.onchain = <<"resizeChannel">>
    /\ Len(ResizeRequests) = 1
    /\ ResizeRequests[1].funds_destination = "0xBroker"
    /\ exitCode = 0

\* the role has a seed phrase to use: its own variable or SEED_PHRASE
HasSeed(role) == env[SeedPhraseEnvVar(role)] \/ env["SEED_PHRASE"]

\* C37: once main has initialized the participants, every role's wallet comes
\* from the role's own seed-phrase variable when that is set and from
\* SEED_PHRASE otherwise; when some role has neither, main has exited with
\* code 1, no participant is stored and no authentication request was sent
C37_SeedPhraseFallback ==
    (program = "rideshare_demo" /\ mainPc # "start") =>
        IF \A role \in Roles : HasSeed(role)
        THEN \A role \in Roles :
                participants[role].address =
                    IF env[SeedPhraseEnvVar(role)]
                    THEN AddressOf(SeedPhraseEnvVar(role))
                    ELSE AddressOf("SEED_PHRASE")
        ELSE /\ exitCode = 1
             /\ participants = NoParticipants
             /\ listening = {}

\* the rider uses its own seed phrase although SEED_PHRASE is set too, the
\* driver falls back to SEED_PHRASE, and all three auth requests are sent
C37_Witness ==
    /\ program = "rideshare_demo"
    /\ env["RIDER_SEED_PHRASE"] /\ env["SEED_PHRASE"] /\ ~env["DRIVER_SEED_PHRASE"]
    /\ listening = Roles
    /\ participants["rider"].address = "0xRider"
    /\ participants["driver"].address = "0xShared"

\* C38: cleanup calls disconnect once on every participant's client, whether
\* or not an earlier disconnect was rejected, and then exits with code 0; it
\* runs only once the status is allocations_updated
C38_CleanupDisconnectsAll ==
    (program = "rideshare_demo" /\ participants # NoParticipants) =>
        /\ \A r \in Roles : participants[r].disconnects <= 1
        /\ (\E r \in Roles : participants[r].disconnects > 0) =>
              /\ \A r \in Roles : participants[r].disconnects = 1
              /\ exitCode = 0
              /\ currentRideStatus = ALLOCATIONS_UPDATED

\* cleanup has run: every client was disconnected once and the process exited
C38_Witness ==
    /\ program = "rideshare_demo" /\ participants # NoParticipants
    /\ \A r \in Roles : participants[r].disconnects = 1
    /\ exitCode = 0
    /\ "cleanup" \notin timers

(* ================== properties of the quorum evaluator ================ *)

Evaluated == evaluation.result.error = ""

\* the positions of the definition whose participant is among the signers
SigningPositions(definition, signerIds) ==
    {k \in DOMAIN definition.participants :
        \E j \in DOMAIN signerIds : signerIds[j] = definition.participants[k]}

RECURSIVE WeightAt(_, _)
WeightAt(definition, positions) ==
    IF positions = {} THEN 0
    ELSE LET k == CHOOSE x \in positions : TRUE
         IN  definition.weights[k] + WeightAt(definition, positions \ {k})

SeqOfRoles(roleSet) ==
    SelectSeq(<<DistinctParticipants["rider"].address, DistinctParticipants["driver"].address,
                DistinctParticipants["app"].address>>,
              LAMBDA a : \E r \in roleSet : DistinctParticipants[r].address = a)

HasRepeatedSigner(signerIds) ==
    \E j, k \in DOMAIN signerIds : j # k /\ signerIds[j] = signerIds[k]

\* C10: a participant that appears more than once among the signers counts
\* once: the achieved weight is that of the distinct signers, and one more
\* signature of somebody who has signed changes neither weight nor approval
C10_DuplicateSignerCountsOnce ==
    (Evaluated /\ HasRepeatedSigner(evaluation.signerIds)) =>
        /\ evaluation.result.achievedWeight =
             WeightAt(evaluation.definition,
                      SigningPositions(evaluation.definition, evaluation.signerIds))
        /\ \A k \in DOMAIN evaluation.signerIds :
             evaluate(evaluation.definition,
                      Append(evaluation.signerIds, evaluation.signerIds[k]))
               = evaluation.result

\* the driver of rideshare_demo signs twice and stays at 40, below the quorum
C10_Witness ==
    /\ evaluation.definition = RideshareDefinition
    /\ evaluation.signerIds = <<"0xDriver", "0xDriver">>
    /\ Evaluated
    /\ evaluation.result.achievedWeight = DRIVER_WEIGHT
    /\ ~evaluation.result.approved

====
